---------------------------- MODULE Spec2Model ----------------------------
(***************************************************************************)
(* A model of the ingestion pipeline of src/rag_pipeline.py: the watchdog  *)
(* observer thread that runs KnowledgeBaseHandler's callbacks, the polling *)
(* loop of start_monitor on the main thread, the Chroma collection         *)
(* 'knowledge' and the Neo4j graph they both write, and the pure chunker   *)
(* chunk_text.                                                             *)
(*                                                                         *)
(* Strings.  A text (a file's content, a chunk) is a whitespace-separated  *)
(* list of words.  It is modelled by the run-length encoding of that word  *)
(* list, a sequence of <<word, count>> runs with no two neighbouring runs  *)
(* of the same word: the encoding is one-to-one on word lists, as          *)
(* ' '.join is, and keeps a 1200-word text small.  split decodes it,       *)
(* join encodes it.  A file name and a chunk id are sequences of tokens    *)
(* ("a", ".txt", "_chunk_", 0), so that str.startswith is the prefix       *)
(* relation on token sequences.                                            *)
(***************************************************************************)
EXTENDS Integers, Sequences, FiniteSets, TLC

(***************************************************************************)
(* Bounds of the model.                                                    *)
(***************************************************************************)
\* filesystem changes (create, modify, delete, mkdir) in one behaviour
MaxFsEvents == 1
\* word counts 0..MaxWords are chunked under the chunker's specification
MaxWords == 1001
\* Modified events the observer queues for one write of a file
MaxBurst == 2
\* texts of 0..MaxWindowWords words are chunked under the windows'
\* specification, with chunk sizes 1..MaxWindowSize
MaxWindowWords == 5
MaxWindowSize == 4

(***************************************************************************)
(* Program constants.                                                      *)
(***************************************************************************)
\* chunk_text's default chunk_size
CHUNK_SIZE == 500
\* chunk_text's default overlap
OVERLAP == 50
KNOWLEDGE_BASE_DIR == "knowledge_base"

(***************************************************************************)
(* str.split() and ' '.join(...) on run-length encoded texts.              *)
(***************************************************************************)
RECURSIVE RunTotal(_, _)
\* the number of words in the first k runs of text
RunTotal(text, k) == IF k = 0 THEN 0 ELSE RunTotal(text, k - 1) + text[k][2]

\* text.split(): the list of words of text
split(text) ==
    LET n == RunTotal(text, Len(text))
    IN  [i \in 1..n |->
            text[CHOOSE k \in 1..Len(text) :
                    RunTotal(text, k - 1) < i /\ i <= RunTotal(text, k)][1]]

RECURSIVE join(_)
\* ' '.join(ws): the text of the word list ws; the empty list gives ''
join(ws) ==
    IF ws = <<>> THEN <<>>
    ELSE LET n == Len(ws)
             r == CHOOSE j \in 1..n :
                     /\ (j = n \/ ws[j + 1] # ws[1])
                     /\ \A i \in 1..j : ws[i] = ws[1]
         IN  <<<<ws[1], r>>>> \o join(SubSeq(ws, r + 1, n))

\* a slice that loses its last word
Slice_short(words, i, j) ==
    SubSeq(words, i + 1, (IF j < Len(words) THEN j ELSE Len(words)) - 1)

\* words[i:j] of Python, i and j zero-based, j clipped to the length
Slice(words, i, j) ==
    SubSeq(words, i + 1, IF j < Len(words) THEN j ELSE Len(words))

(***************************************************************************)
(* chunk_text (lines 41-48).  range(0, len(words), step) raises ValueError *)
(* for step = 0 and is empty for step < 0.                                 *)
(***************************************************************************)
RECURSIVE ChunkLoop(_, _, _, _)
\* the for loop from start index i on
ChunkLoop(words, i, chunk_size, step) ==
    IF i >= Len(words) THEN <<>>
    ELSE LET chunk == join(Slice(words, i, i + chunk_size))
         IN  (IF chunk # <<>> THEN <<chunk>> ELSE <<>>)
                 \o ChunkLoop(words, i + step, chunk_size, step)

\* a chunker that steps by chunk_size, the overlap forgotten
ChunkStep_no_overlap(chunk_size, overlap) == chunk_size

\* the step of chunk_text's range
ChunkStep(chunk_size, overlap) == chunk_size - overlap

\* whether chunk_text raises: range() raises ValueError for a step of 0
chunk_text_raises(text, chunk_size, overlap) ==
    ChunkStep(chunk_size, overlap) = 0

\* the list chunk_text returns, when it does not raise (range with a
\* negative step and a start below its stop is empty)
chunk_text(text, chunk_size, overlap) ==
    IF ChunkStep(chunk_size, overlap) <= 0 THEN <<>>
    ELSE ChunkLoop(split(text), 0, chunk_size, ChunkStep(chunk_size, overlap))

(***************************************************************************)
(* File names, paths and chunk ids.                                        *)
(***************************************************************************)
\* the names a file of the watched directory can have; the second starts
\* with the first ("a.txt.md".startswith("a.txt"))
FileIds == { <<"a", ".txt">>, <<"a", ".txt", ".md">>, <<"b", ".exe">> }

\* word counts of the contents a file can have
WordCounts == {0, 10, 1200}

\* the text of n words w
Text(w, n) == IF n = 0 THEN <<>> ELSE << <<w, n>> >>

\* the contents a file can have
Contents == { Text("x", n) : n \in WordCounts }

\* the contents a file named f can have (a file process_file never opens
\* has one)
ContentsOf(f) ==
    IF f[Len(f)] \in {".txt", ".md"} THEN Contents ELSE { Text("x", 10) }

\* the extensions process_file reads with extract_text_from_txt, and .exe
\* with them
TextExts_and_exe == {".txt", ".md", ".exe"}

\* the extensions process_file reads with extract_text_from_txt (line 74)
TextExts == {".txt", ".md"}

\* chunk_text(text) with the default chunk_size and overlap (line 79), for
\* each content, evaluated once
chunks_of == [text \in Contents |-> chunk_text(text, CHUNK_SIZE, OVERLAP)]

\* os.path.join(KNOWLEDGE_BASE_DIR, f)
path_join(f) == <<KNOWLEDGE_BASE_DIR>> \o f

\* os.path.basename(file_path)
basename(file_path) == Tail(file_path)

\* str.lower() on an extension
lower(ext) ==
    CASE ext = ".TXT" -> ".txt"
      [] ext = ".MD" -> ".md"
      [] ext = ".EXE" -> ".exe"
      [] OTHER -> ext

\* os.path.splitext(file_path)[1].lower()
splitext_lower(file_path) == lower(file_path[Len(file_path)])

\* s.startswith(prefix)
startswith(s, prefix) ==
    Len(prefix) <= Len(s) /\ SubSeq(s, 1, Len(prefix)) = prefix

\* chunk ids numbered from one
chunk_id_from_one(file_id, i) == file_id \o <<"_chunk_", ToString(i + 1)>>

\* f"{file_id}_chunk_{idx}" (line 81)
chunk_id(file_id, i) == file_id \o <<"_chunk_", ToString(i)>>

(***************************************************************************)
(* The embedding service (lines 50-53): a vector that is a function of the *)
(* text embedded.                                                          *)
(***************************************************************************)
embed_text(text) == [model |-> "text-embedding-ada-002", input |-> text]

NoEmbedding == [model |-> "", input |-> <<>>]

(***************************************************************************)
(* The Chroma collection 'knowledge': a set of records.  collection.add    *)
(* is given documents, embeddings and ids and no metadatas, so the         *)
(* record's metadata is None; a record whose id is already in the          *)
(* collection is not added (Chroma's add ignores an existing id).          *)
(***************************************************************************)
None == [type |-> "NoneType"]

\* a record that carries its id in its metadata
chroma_record_with_id(doc_id, chunk, emb) ==
    [id |-> doc_id, document |-> chunk, embedding |-> emb,
     metadata |-> [type |-> "dict", id |-> doc_id]]

\* the record collection.add stores (line 57)
chroma_record(doc_id, chunk, emb) ==
    [id |-> doc_id, document |-> chunk, embedding |-> emb, metadata |-> None]

\* add_to_chroma (lines 55-57): the collection after the call
add_to_chroma(coll, doc_id, chunk, emb) ==
    IF \E r \in coll : r.id = doc_id
    THEN coll
    ELSE coll \cup {chroma_record(doc_id, chunk, emb)}

\* whether the comprehension of line 100 raises: doc['id'] on a metadata
\* that is None is a TypeError
metadatas_raise(coll) == \E r \in coll : r.metadata.type = "NoneType"

\* ids_to_remove of line 100, when the comprehension does not raise
ids_to_remove(coll, file_id) ==
    { r.metadata.id : r \in { q \in coll : startswith(q.metadata.id, file_id) } }

\* collection.delete(ids=ids_to_remove) (lines 101-102)
collection_delete(coll, ids) == { r \in coll : r.id \notin ids }

(***************************************************************************)
(* The Neo4j graph: File nodes, Chunk nodes and CONTAINS relationships.    *)
(* Neo4j gives each node and relationship an identity of its own, so two   *)
(* nodes can carry the same properties; the identity is modelled by the    *)
(* field copy, the number of nodes (relationships) with the same           *)
(* properties (end points) that existed when it was created.  MERGE        *)
(* matches a node or relationship with the given properties and creates    *)
(* one only when none matches.  Each session.run is one transaction.       *)
(***************************************************************************)
EmptyGraph == [files |-> {}, chunks |-> {}, rels |-> {}]

\* MERGE (f:File {id: $file_id}) (line 61)
merge_file(g, file_id) ==
    IF \E f \in g.files : f.id = file_id
    THEN g
    ELSE [g EXCEPT !.files = @ \cup {[id |-> file_id, copy |-> 0]}]

\* CREATE in place of MERGE: a Chunk node is made whether or not one matches
create_chunk(g, cid, text) ==
    [g EXCEPT !.chunks = @ \cup
        {[id |-> cid, text |-> text,
          copy |-> Cardinality({ c \in g.chunks : c.id = cid /\ c.text = text })]}]

\* MERGE (c:Chunk {id: $chunk_id, text: $text}) (line 62)
merge_chunk(g, cid, text) ==
    IF \E c \in g.chunks : c.id = cid /\ c.text = text
    THEN g
    ELSE [g EXCEPT !.chunks = @ \cup {[id |-> cid, text |-> text, copy |-> 0]}]

\* the (f, c) pairs line 63's MATCH finds
matched(g, file_id, cid) ==
    { x \in g.files : x.id = file_id } \X { y \in g.chunks : y.id = cid }

\* a MATCH that leaves out the chunk's id: the file is related to every
\* Chunk node
merge_contains_any_chunk(g, file_id, cid) ==
    [g EXCEPT !.rels = @ \cup
        { [src |-> p[1], dst |-> p[2], copy |-> 0] :
            p \in { q \in { x \in g.files : x.id = file_id } \X g.chunks :
                      ~ \E r \in g.rels : r.src = q[1] /\ r.dst = q[2] } }]

\* MATCH (f:File {id}), (c:Chunk {id}) MERGE (f)-[:CONTAINS]->(c) (line 63)
merge_contains(g, file_id, cid) ==
    [g EXCEPT !.rels = @ \cup
        { [src |-> p[1], dst |-> p[2], copy |-> 0] :
            p \in { q \in matched(g, file_id, cid) :
                      ~ \E r \in g.rels : r.src = q[1] /\ r.dst = q[2] } }]

\* MATCH (f:File {id: $file_id}) DETACH DELETE f (line 104)
detach_delete_file(g, file_id) ==
    [g EXCEPT !.files = { f \in @ : f.id # file_id },
              !.rels = { r \in @ : r.src.id # file_id }]

(***************************************************************************)
(* Text files as bytes, and the decoders open(..., encoding=...) uses.  A  *)
(* decoded text is the sequence of its characters' code points.  The bytes *)
(* of the model are 'A', the UTF-8 lead byte C3, the continuation byte A9, *)
(* the continuation byte 81 (which cp1252 does not define) and FF (which   *)
(* UTF-8 never has); the decoders are defined on these.                    *)
(***************************************************************************)
\* files of at most MaxBytes bytes are decoded
MaxBytes == 3

ByteValues == {65, 195, 169, 129, 255}

DecodeError == [ok |-> FALSE, text |-> <<>>]

RECURSIVE utf8_decode(_)
\* bytes.decode('utf-8'): an ASCII byte is its character, C3 with a
\* continuation byte is a character of U+00C0..U+00FF, anything else fails
utf8_decode(bs) ==
    IF bs = <<>> THEN [ok |-> TRUE, text |-> <<>>]
    ELSE IF bs[1] < 128
    THEN LET rest == utf8_decode(Tail(bs))
         IN  IF rest.ok THEN [ok |-> TRUE, text |-> <<bs[1]>> \o rest.text]
             ELSE DecodeError
    ELSE IF bs[1] = 195 /\ Len(bs) >= 2 /\ bs[2] \in 128..191
    THEN LET rest == utf8_decode(Tail(Tail(bs)))
         IN  IF rest.ok
             THEN [ok |-> TRUE, text |-> <<(bs[1] - 192) * 64 + (bs[2] - 128)>> \o rest.text]
             ELSE DecodeError
    ELSE DecodeError

\* bytes.decode('latin-1'): every byte is the character of its value
latin1_decode(bs) == [ok |-> TRUE, text |-> bs]

\* bytes.decode('cp1252'): 81, 8D, 8F, 90 and 9D are undefined; the other
\* bytes of the model are the characters of their values
cp1252_decode(bs) ==
    IF \E i \in 1..Len(bs) : bs[i] \in {129, 141, 143, 144, 157}
    THEN DecodeError
    ELSE [ok |-> TRUE, text |-> bs]

\* open(path, 'r', encoding=encoding).read() on a file of bytes bs
decode(bs, encoding) ==
    CASE encoding = "utf-8" -> utf8_decode(bs)
      [] encoding = "latin-1" -> latin1_decode(bs)
      [] encoding = "cp1252" -> cp1252_decode(bs)

\* extract_text_from_txt (rag_pipeline.py, lines 37-39): UTF-8 or
\* UnicodeDecodeError
extract_text_from_txt(bs) ==
    IF utf8_decode(bs).ok
    THEN [kind |-> "text", prefix |-> "", text |-> utf8_decode(bs).text]
    ELSE [kind |-> "UnicodeDecodeError", prefix |-> "", text |-> <<>>]

\* the encodings of FileProcessor._read_text_file (file_processor.py, line 67)
encodings == <<"utf-8", "latin-1", "cp1252">>

RECURSIVE ReadLoop(_, _)
\* the for loop of _read_text_file from the i-th encoding on (lines 69-77)
ReadLoop(bs, i) ==
    IF i > Len(encodings)
    THEN [kind |-> "message", prefix |-> "",
          text |-> "Could not decode file content. Binary file or unsupported encoding."]
    ELSE IF decode(bs, encodings[i]).ok
    THEN [kind |-> "text", prefix |-> "File content:\n\n",
          text |-> decode(bs, encodings[i]).text]
    ELSE ReadLoop(bs, i + 1)

\* FileProcessor._read_text_file (file_processor.py, lines 65-77)
read_text_file(bs) == ReadLoop(bs, 1)

(***************************************************************************)
(* Chat sessions (chat_history.py).  A message's content and a title are   *)
(* strings of characters, run-length encoded as the texts above are, with  *)
(* <<character, count>> runs; a title is the pair of its text and the      *)
(* '...' it may end with.  The timestamps (created_at, a message's         *)
(* timestamp) are left out: nothing but the order of get_all_sessions'     *)
(* returned list reads them.  A session file holds the JSON of a dict of   *)
(* strings and lists, written as UTF-8 with ensure_ascii=False: json.load  *)
(* gives it back as written, unless a string holds a lone surrogate        *)
(* (U+D800), which UTF-8 cannot encode; the write then raises              *)
(* UnicodeEncodeError with the file already truncated by open(..., 'w').   *)
(***************************************************************************)
\* calls of ChatHistoryManager in one behaviour
MaxChatCalls == 4

\* the length a title is cut to (line 60)
TITLE_LEN == 60

SessionIds == {"s1", "s2"}

Roles == {"user", "assistant"}

\* the string of n characters ch
Str(ch, n) == IF n = 0 THEN <<>> ELSE << <<ch, n>> >>

\* the contents a message can have: '', blanks, short, TITLE_LEN and
\* TITLE_LEN + 1 characters, a long one that begins with a blank, and a
\* lone surrogate (the str json.loads makes of "\ud800")
MessageContents ==
    { Str("q", 0), Str(" ", 3), Str("h", 2), Str("q", TITLE_LEN),
      Str("q", TITLE_LEN + 1), Str(" ", 1) \o Str("z", TITLE_LEN),
      Str("U+D800", 1) }

\* len(s)
StrLen(s) == RunTotal(s, Len(s))

RECURSIVE lstrip(_)
\* s.lstrip()
lstrip(s) ==
    IF s = <<>> THEN <<>>
    ELSE IF s[1][1] = " " THEN lstrip(Tail(s)) ELSE s

RECURSIVE rstrip(_)
\* s.rstrip()
rstrip(s) ==
    IF s = <<>> THEN <<>>
    ELSE IF s[Len(s)][1] = " " THEN rstrip(SubSeq(s, 1, Len(s) - 1)) ELSE s

\* s.strip()
strip(s) == rstrip(lstrip(s))

RECURSIVE TakeChars(_, _)
\* s[:n]
TakeChars(s, n) ==
    IF n <= 0 \/ s = <<>> THEN <<>>
    ELSE IF s[1][2] <= n
    THEN <<s[1]>> \o TakeChars(Tail(s), n - s[1][2])
    ELSE << <<s[1][1], n>> >>

NewChat == [text |-> << <<"New Chat", 1>> >>, suffix |-> ""]

RECURSIVE SummarizeLoop(_, _)
\* the for loop of summarize_session from the i-th message on (lines 58-61)
SummarizeLoop(messages, i) ==
    IF i > Len(messages) THEN NewChat
    ELSE IF messages[i].role = "user" /\ strip(messages[i].content) # <<>>
    THEN [text |-> TakeChars(messages[i].content, TITLE_LEN),
          suffix |-> IF StrLen(messages[i].content) > TITLE_LEN THEN "..." ELSE ""]
    ELSE SummarizeLoop(messages, i + 1)

\* summarize_session (lines 54-61)
summarize_session(messages) ==
    IF messages = <<>> THEN NewChat ELSE SummarizeLoop(messages, 1)

\* the session data create_session saves (lines 15-20)
new_session(sid) == [session_id |-> sid, title |-> NewChat, messages |-> <<>>]

\* whether str.encode('utf-8') takes the string s
utf8_encodable(s) == \A i \in 1..Len(s) : s[i][1] # "U+D800"

\* whether json.dump(session_data, f, ensure_ascii=False) into a file opened
\* with encoding='utf-8' goes through (line 28); the title is cut from a
\* message's content
json_dump_ok(data) ==
    \A i \in 1..Len(data.messages) : utf8_encodable(data.messages[i].content)

\* a session file with the JSON of data
JsonFile(data) == [json_ok |-> TRUE, data |-> data]

\* a session file cut off in the middle of its JSON
PartialFile == [json_ok |-> FALSE, data |-> new_session("")]

\* save_session (lines 24-28): the files after the call, which has raised
\* when the file it leaves is a partial one
save_session(files, sid, data) ==
    [x \in DOMAIN files \cup {sid} |->
        IF x = sid
        THEN (IF json_dump_ok(data) THEN JsonFile(data) ELSE PartialFile)
        ELSE files[x]]

\* whether load_session (lines 30-36) returns the session's data: the file
\* exists and json.load does not raise JSONDecodeError
loads(files, sid) == sid \in DOMAIN files /\ files[sid].json_ok

(***************************************************************************)
(* The state.                                                              *)
(***************************************************************************)
VARIABLES
    dir,              \* the regular files of KNOWLEDGE_BASE_DIR: name -> content
    fs_events,        \* filesystem changes so far
    event_queue,      \* the observer's queue of filesystem events
    collection,       \* the Chroma collection 'knowledge'
    graph,            \* the Neo4j graph
    pc,               \* each thread's position
    file_path,        \* process_file's file_path, on_deleted's event path
    chunks,           \* process_file's chunks
    idx,              \* process_file's idx
    embedding,        \* process_file's embedding
    exc,              \* the exception that ended a thread
    event_type,       \* the kind of the event the observer thread is handling
    processed_files,  \* start_monitor's processed_files
    new_files,        \* start_monitor's new_files
    todo,             \* the part of new_files the for loop has not reached
    calls,            \* history: how often the loop of start_monitor has
                      \* called process_file on each file name
    hist,             \* history of the thread's run of process_file or of
                      \* on_deleted: a run of process_file began with nothing
                      \* of its file in the stores (clean), or with all of its
                      \* file's chunks there (done); no other thread was inside
                      \* process_file for that file when on_deleted began, and
                      \* none has written anything of that file since the run
                      \* began (alone); on_deleted and a run of process_file
                      \* were in flight for the same file at the same time
                      \* (raced)
    c_in,             \* the chunker's specification: chunk_text's arguments
    c_out,            \* the chunker's specification: what chunk_text returned
    c_pc,             \* the chunker's specification: "call", "returned" or
                      \* "raised"
    e_in,             \* the extractors' specification: the file's bytes
    e_out,            \* the extractors' specification: what the call gave
    e_pc,             \* the extractors' specification: "call", then the
                      \* function called and how it ended
    session_files,    \* chat history: the session files of storage_dir,
                      \* session id -> session data
    added,            \* chat history, history: the messages add_message was
                      \* given for each session, in call order
    created,          \* chat history, history: the session ids handed out
    chat_calls        \* chat history: calls of ChatHistoryManager so far

vars == <<dir, fs_events, event_queue, collection, graph, pc, file_path, chunks,
          idx, embedding, exc, event_type, processed_files, new_files, todo,
          calls, hist, c_in, c_out, c_pc, e_in, e_out, e_pc, session_files,
          added, created, chat_calls>>

stores == <<collection, graph>>
locals == <<file_path, chunks, idx, embedding>>
monitor == <<processed_files, new_files, todo, calls>>
chunker == <<c_in, c_out, c_pc>>
extractor == <<e_in, e_out, e_pc>>
chat == <<session_files, added, created, chat_calls>>
elsewhere == <<extractor, chat>>
pipeline == <<dir, fs_events, event_queue, collection, graph, pc, file_path,
              chunks, idx, embedding, exc, event_type, processed_files,
              new_files, todo, calls, hist>>
filesystem == <<dir, fs_events, event_queue>>

\* the observer thread (KnowledgeBaseHandler's callbacks) and the main thread
Threads == {"watcher", "main"}

NoException == [type |-> "", where |-> ""]

\* the positions inside process_file
ProcessFilePcs == {"pf_extract", "pf_embed", "pf_chroma", "pf_neo_file",
                   "pf_neo_chunk", "pf_neo_rel", "pf_done"}

\* the positions inside on_deleted
OnDeletedPcs == {"del_chroma", "del_neo4j", "del_done"}

\* an uncaught exception on the main thread ends the process (the observer
\* thread is a daemon thread)
Running == pc["main"] # "crashed"

\* a watchdog event; nth tells the events of one write apart (the first, the
\* second, ...), no code reads it
FileSystemEvent(kind, f, is_dir, nth) ==
    [event_type |-> kind, src_path |-> path_join(f), is_directory |-> is_dir,
     nth |-> nth]

\* the file id thread t is working on
file_id(t) == basename(file_path[t])

NoHistory == [clean |-> FALSE, done |-> FALSE, alone |-> FALSE, raced |-> FALSE]

\* the history variable after thread t has written something of file fid
Touched(t, fid) ==
    [u \in Threads |->
        IF u # t /\ file_path[u] # <<>> /\ file_id(u) = fid
        THEN [hist[u] EXCEPT !.alone = FALSE] ELSE hist[u]]

\* whether the stores hold nothing of file fid
HoldNothing(fid) ==
    /\ ~ \E r \in collection : startswith(r.id, fid \o <<"_chunk_">>)
    /\ ~ \E f \in graph.files : f.id = fid
    /\ ~ \E c \in graph.chunks : startswith(c.id, fid \o <<"_chunk_">>)

\* whether the stores hold what a run of process_file on file fid with the
\* chunks cs leaves: a record under each chunk id, the File node, a Chunk
\* node with each chunk's id and text, and a CONTAINS relationship from
\* every File node of fid to every Chunk node with one of the ids
AlreadyProcessed(fid, cs) ==
    \A i \in 0..(Len(cs) - 1) :
        LET cid == fid \o <<"_chunk_", ToString(i)>>
        IN  /\ \E r \in collection : r.id = cid
            /\ \E f \in graph.files : f.id = fid
            /\ \E c \in graph.chunks : c.id = cid /\ c.text = cs[i + 1]
            /\ \A f \in graph.files, c \in graph.chunks :
                   (f.id = fid /\ c.id = cid) =>
                       \E r \in graph.rels : r.src = f /\ r.dst = c

\* whether on_deleted is in flight for file fid
Deleting(fid) ==
    /\ pc["watcher"] \in OnDeletedPcs
    /\ file_id("watcher") = fid

NoResult == [kind |-> "", prefix |-> "", text |-> <<>>]

\* the extractors' specification is not in use
ExtractorUnused ==
    /\ e_in = <<>>
    /\ e_out = NoResult
    /\ e_pc = "unused"

\* ChatHistoryManager on an empty storage_dir (lines 8-10)
ChatStart ==
    /\ session_files = [sid \in {} |-> <<>>]
    /\ added = [sid \in {} |-> <<>>]
    /\ created = {}
    /\ chat_calls = 0

\* the exception e ends thread t
Raise(t, type, where) ==
    /\ pc' = [pc EXCEPT ![t] = "crashed"]
    /\ exc' = [exc EXCEPT ![t] = [type |-> type, where |-> where]]

\* where process_file returns to
ReturnPc(t) == IF t = "watcher" THEN "idle" ELSE "main_for"

(***************************************************************************)
(* The filesystem: files of the watched directory are created, rewritten   *)
(* and removed, and a subdirectory is made; the observer (started on line  *)
(* 113, before the loop) queues an event for each.                         *)
(***************************************************************************)
FsCreate(f, text) ==
    /\ Running /\ fs_events < MaxFsEvents
    /\ f \notin DOMAIN dir
    /\ dir' = [g \in DOMAIN dir \cup {f} |-> IF g = f THEN text ELSE dir[g]]
    /\ event_queue' = Append(event_queue, FileSystemEvent("created", f, FALSE, 1))
    /\ fs_events' = fs_events + 1
    /\ UNCHANGED <<stores, pc, locals, exc, event_type, monitor, hist, chunker, elsewhere>>

\* one write of a file makes the observer queue one Modified event or a
\* burst of them (a save is several writes to the filesystem)
FsModify(f, text, burst) ==
    /\ Running /\ fs_events < MaxFsEvents
    /\ f \in DOMAIN dir
    /\ dir' = [dir EXCEPT ![f] = text]
    /\ event_queue' = event_queue \o
            [n \in 1..burst |-> FileSystemEvent("modified", f, FALSE, n)]
    /\ fs_events' = fs_events + 1
    /\ UNCHANGED <<stores, pc, locals, exc, event_type, monitor, hist, chunker, elsewhere>>

FsDelete(f) ==
    /\ Running /\ fs_events < MaxFsEvents
    /\ f \in DOMAIN dir
    /\ dir' = [g \in DOMAIN dir \ {f} |-> dir[g]]
    /\ event_queue' = Append(event_queue, FileSystemEvent("deleted", f, FALSE, 1))
    /\ fs_events' = fs_events + 1
    /\ UNCHANGED <<stores, pc, locals, exc, event_type, monitor, hist, chunker, elsewhere>>

FsMkdir ==
    /\ Running /\ fs_events < MaxFsEvents
    /\ event_queue' = Append(event_queue, FileSystemEvent("created", <<"sub">>, TRUE, 1))
    /\ fs_events' = fs_events + 1
    /\ UNCHANGED <<dir, stores, pc, locals, exc, event_type, monitor, hist, chunker, elsewhere>>

(***************************************************************************)
(* KnowledgeBaseHandler's callbacks, run by the observer thread one event  *)
(* at a time.                                                              *)
(***************************************************************************)
\* the observer thread takes the next event of kind off the queue
Dispatch(kind) ==
    /\ Running /\ pc["watcher"] = "idle"
    /\ event_queue # <<>>
    /\ Head(event_queue).event_type = kind
    /\ event_queue' = Tail(event_queue)

\* on_created, on_modified (lines 87-93): a file's event calls process_file
OnFileEvent(kind) ==
    /\ Dispatch(kind)
    /\ IF ~ Head(event_queue).is_directory
       THEN /\ pc' = [pc EXCEPT !["watcher"] = "pf_extract"]
            /\ file_path' = [file_path EXCEPT !["watcher"] = Head(event_queue).src_path]
            /\ event_type' = kind
       ELSE UNCHANGED <<pc, file_path, event_type>>
    /\ UNCHANGED <<dir, fs_events, stores, chunks, idx, embedding, exc, monitor,
                   hist, chunker, elsewhere>>

on_created == OnFileEvent("created")

on_modified == OnFileEvent("modified")

\* on_deleted (lines 95-97)
on_deleted ==
    /\ Dispatch("deleted")
    /\ IF ~ Head(event_queue).is_directory
       THEN /\ pc' = [pc EXCEPT !["watcher"] = "del_chroma"]
            /\ file_path' = [file_path EXCEPT !["watcher"] = Head(event_queue).src_path]
            /\ event_type' = "deleted"
            /\ LET inflight == /\ pc["main"] \in ProcessFilePcs
                                /\ file_path["main"] = Head(event_queue).src_path
               IN  hist' = [u \in Threads |->
                               IF u = "watcher"
                               THEN [clean |-> FALSE, done |-> FALSE,
                                     alone |-> ~ inflight, raced |-> inflight]
                               ELSE [hist[u] EXCEPT !.raced = @ \/ inflight]]
       ELSE UNCHANGED <<pc, file_path, event_type, hist>>
    /\ UNCHANGED <<dir, fs_events, stores, chunks, idx, embedding, exc, monitor,
                   chunker, elsewhere>>

\* on_deleted (lines 99-102): the ids to remove are read from the records'
\* metadatas and removed from the collection
on_deleted_chroma ==
    /\ Running /\ pc["watcher"] = "del_chroma"
    /\ IF metadatas_raise(collection)
       THEN /\ Raise("watcher", "TypeError", "on_deleted")
            /\ UNCHANGED <<collection, hist>>
       ELSE /\ collection' = collection_delete(collection,
                                ids_to_remove(collection, file_id("watcher")))
            /\ pc' = [pc EXCEPT !["watcher"] = "del_neo4j"]
            /\ hist' = [u \in Threads |->
                            IF /\ u # "watcher" /\ pc[u] \in ProcessFilePcs
                               /\ collection' # collection
                            THEN [hist[u] EXCEPT !.alone = FALSE] ELSE hist[u]]
            /\ UNCHANGED exc
    /\ UNCHANGED <<filesystem, graph, locals, event_type, monitor, chunker, elsewhere>>

\* on_deleted (lines 103-104)
on_deleted_neo4j ==
    /\ Running /\ pc["watcher"] = "del_neo4j"
    /\ graph' = detach_delete_file(graph, file_id("watcher"))
    /\ pc' = [pc EXCEPT !["watcher"] = "del_done"]
    /\ hist' = Touched("watcher", file_id("watcher"))
    /\ UNCHANGED <<filesystem, collection, locals, exc, event_type, monitor, chunker, elsewhere>>

\* on_deleted (line 105), and the return
on_deleted_done ==
    /\ Running /\ pc["watcher"] = "del_done"
    /\ pc' = [pc EXCEPT !["watcher"] = "idle"]
    /\ file_path' = [file_path EXCEPT !["watcher"] = <<>>]
    /\ event_type' = ""
    /\ hist' = [hist EXCEPT !["watcher"] = NoHistory]
    /\ UNCHANGED <<filesystem, stores, chunks, idx, embedding, exc, monitor, chunker, elsewhere>>

(***************************************************************************)
(* process_file (lines 67-85), run by either thread.  No file of FileIds   *)
(* is a PDF or an image, so only extract_text_from_txt is modelled; the    *)
(* files hold UTF-8 text (what extract_text_from_txt does with other bytes *)
(* is in the extractors' specification).                                   *)
(***************************************************************************)
\* lines 68-79: the extension, the file's text (open raises when the file
\* is gone), the chunks
process_file_extract(t) ==
    /\ Running /\ pc[t] = "pf_extract"
    /\ LET ext == splitext_lower(file_path[t])
           fid == file_id(t)
       IN  IF ext \in TextExts
           THEN IF fid \in DOMAIN dir
                THEN LET cs == chunks_of[dir[fid]]
                     IN  /\ chunks' = [chunks EXCEPT ![t] = cs]
                         /\ idx' = [idx EXCEPT ![t] = 0]
                         /\ pc' = [pc EXCEPT ![t] =
                                      IF cs = <<>> THEN "pf_done" ELSE "pf_embed"]
                         /\ hist' = [u \in Threads |->
                                        IF u = t
                                        THEN [clean |-> HoldNothing(fid),
                                              done |-> AlreadyProcessed(fid, cs),
                                              alone |-> TRUE,
                                              raced |-> Deleting(fid)]
                                        ELSE [hist[u] EXCEPT !.raced =
                                                 @ \/ Deleting(fid)]]
                         /\ UNCHANGED <<exc, file_path, event_type>>
                ELSE /\ Raise(t, "FileNotFoundError", "process_file")
                     /\ UNCHANGED <<chunks, idx, hist, file_path, event_type>>
           ELSE /\ pc' = [pc EXCEPT ![t] = ReturnPc(t)]
                /\ file_path' = [file_path EXCEPT ![t] = <<>>]
                /\ event_type' = IF t = "watcher" THEN "" ELSE event_type
                /\ UNCHANGED <<chunks, idx, hist, exc>>
    /\ UNCHANGED <<filesystem, stores, embedding, monitor, chunker, elsewhere>>

\* line 82: the embedding service answers with the vector, or the call
\* raises (the service is down, the key is refused); nothing catches it
process_file_embed(t) ==
    /\ Running /\ pc[t] = "pf_embed"
    /\ \/ /\ embedding' = [embedding EXCEPT ![t] = embed_text(chunks[t][idx[t] + 1])]
          /\ pc' = [pc EXCEPT ![t] = "pf_chroma"]
          /\ UNCHANGED exc
       \/ /\ Raise(t, "APIError", "embed_text")
          /\ UNCHANGED embedding
    /\ UNCHANGED <<filesystem, stores, file_path, chunks, idx, event_type,
                   monitor, hist, chunker, elsewhere>>

\* line 83
process_file_chroma(t) ==
    /\ Running /\ pc[t] = "pf_chroma"
    /\ collection' = add_to_chroma(collection, chunk_id(file_id(t), idx[t]),
                                   chunks[t][idx[t] + 1], embedding[t])
    /\ pc' = [pc EXCEPT ![t] = "pf_neo_file"]
    /\ hist' = Touched(t, file_id(t))
    /\ UNCHANGED <<filesystem, graph, locals, exc, event_type, monitor, chunker, elsewhere>>

\* line 84, add_to_neo4j's first statement (line 61)
add_to_neo4j_file(t) ==
    /\ Running /\ pc[t] = "pf_neo_file"
    /\ graph' = merge_file(graph, file_id(t))
    /\ pc' = [pc EXCEPT ![t] = "pf_neo_chunk"]
    /\ hist' = Touched(t, file_id(t))
    /\ UNCHANGED <<filesystem, collection, locals, exc, event_type, monitor, chunker, elsewhere>>

\* add_to_neo4j's second statement (line 62)
add_to_neo4j_chunk(t) ==
    /\ Running /\ pc[t] = "pf_neo_chunk"
    /\ graph' = merge_chunk(graph, chunk_id(file_id(t), idx[t]), chunks[t][idx[t] + 1])
    /\ pc' = [pc EXCEPT ![t] = "pf_neo_rel"]
    /\ hist' = Touched(t, file_id(t))
    /\ UNCHANGED <<filesystem, collection, locals, exc, event_type, monitor, chunker, elsewhere>>

\* add_to_neo4j's third statement (line 63), and the for loop's next round
add_to_neo4j_contains(t) ==
    /\ Running /\ pc[t] = "pf_neo_rel"
    /\ graph' = merge_contains(graph, file_id(t), chunk_id(file_id(t), idx[t]))
    /\ idx' = [idx EXCEPT ![t] = @ + 1]
    /\ embedding' = [embedding EXCEPT ![t] = NoEmbedding]
    /\ pc' = [pc EXCEPT ![t] =
                 IF idx[t] + 1 < Len(chunks[t]) THEN "pf_embed" ELSE "pf_done"]
    /\ hist' = Touched(t, file_id(t))
    /\ UNCHANGED <<filesystem, collection, file_path, chunks, exc, event_type,
                   monitor, chunker, elsewhere>>

\* line 85, and the return
process_file_done(t) ==
    /\ Running /\ pc[t] = "pf_done"
    /\ pc' = [pc EXCEPT ![t] = ReturnPc(t)]
    /\ file_path' = [file_path EXCEPT ![t] = <<>>]
    /\ chunks' = [chunks EXCEPT ![t] = <<>>]
    /\ idx' = [idx EXCEPT ![t] = 0]
    /\ hist' = [hist EXCEPT ![t] = NoHistory]
    /\ event_type' = IF t = "watcher" THEN "" ELSE event_type
    /\ UNCHANGED <<filesystem, stores, embedding, exc, monitor, chunker, elsewhere>>

(***************************************************************************)
(* start_monitor's loop (lines 116-125) on the main thread.                *)
(***************************************************************************)
\* lines 119-121: the directory's regular files that are not known yet
\* a scan that forgets which files are known
start_monitor_scan_all ==
    /\ Running /\ pc["main"] = "main_scan"
    /\ DOMAIN dir # {}
    /\ new_files' = DOMAIN dir
    /\ todo' = DOMAIN dir
    /\ pc' = [pc EXCEPT !["main"] = "main_for"]
    /\ UNCHANGED <<filesystem, stores, locals, exc, event_type, processed_files,
                   calls, hist, chunker, elsewhere>>

start_monitor_scan ==
    /\ Running /\ pc["main"] = "main_scan"
    /\ DOMAIN dir \ processed_files # {}
    /\ new_files' = DOMAIN dir \ processed_files
    /\ todo' = DOMAIN dir \ processed_files
    /\ pc' = [pc EXCEPT !["main"] = "main_for"]
    /\ UNCHANGED <<filesystem, stores, locals, exc, event_type, processed_files,
                   calls, hist, chunker, elsewhere>>

\* lines 122-123: the next file of new_files, in the set's order
start_monitor_for ==
    /\ Running /\ pc["main"] = "main_for"
    /\ \E f \in todo :
          /\ todo' = todo \ {f}
          /\ file_path' = [file_path EXCEPT !["main"] = path_join(f)]
          /\ calls' = [calls EXCEPT ![f] = @ + 1]
    /\ pc' = [pc EXCEPT !["main"] = "pf_extract"]
    /\ UNCHANGED <<filesystem, stores, chunks, idx, embedding, exc, event_type,
                   processed_files, new_files, hist, chunker, elsewhere>>

\* lines 124-125: the loop is over, the files are known
start_monitor_update ==
    /\ Running /\ pc["main"] = "main_for"
    /\ todo = {}
    /\ processed_files' = processed_files \cup new_files
    /\ new_files' = {}
    /\ pc' = [pc EXCEPT !["main"] = "main_scan"]
    /\ UNCHANGED <<filesystem, stores, locals, exc, event_type, todo, calls, hist,
                   chunker, elsewhere>>

(***************************************************************************)
(* The specification of the pipeline.  It starts after observer.start():   *)
(* the stores are empty, the directory holds any files (they were there    *)
(* before the observer, so no event tells of them).                        *)
(***************************************************************************)
\* the state of the threads and the stores when start_monitor enters its loop
PipelineStart ==
    /\ fs_events = 0
    /\ event_queue = <<>>
    /\ collection = {}
    /\ graph = EmptyGraph
    /\ pc = [t \in Threads |-> IF t = "watcher" THEN "idle" ELSE "main_scan"]
    /\ file_path = [t \in Threads |-> <<>>]
    /\ chunks = [t \in Threads |-> <<>>]
    /\ idx = [t \in Threads |-> 0]
    /\ embedding = [t \in Threads |-> NoEmbedding]
    /\ exc = [t \in Threads |-> NoException]
    /\ event_type = ""
    /\ processed_files = {}
    /\ new_files = {}
    /\ todo = {}
    /\ calls = [f \in FileIds |-> 0]
    /\ hist = [t \in Threads |-> NoHistory]

Init ==
    /\ dir \in UNION { [S -> Contents] : S \in SUBSET FileIds }
    /\ \A f \in DOMAIN dir : dir[f] \in ContentsOf(f)
    /\ PipelineStart
    /\ c_in = [text |-> <<>>, chunk_size |-> CHUNK_SIZE, overlap |-> OVERLAP]
    /\ c_out = <<>>
    /\ c_pc = "unused"
    /\ ExtractorUnused
    /\ ChatStart

Next ==
    \/ \E f \in FileIds : \E text \in ContentsOf(f) : FsCreate(f, text)
    \/ \E f \in FileIds : \E text \in ContentsOf(f) : \E burst \in 1..MaxBurst :
          FsModify(f, text, burst)
    \/ \E f \in FileIds : FsDelete(f)
    \/ FsMkdir
    \/ on_created
    \/ on_modified
    \/ on_deleted
    \/ on_deleted_chroma
    \/ on_deleted_neo4j
    \/ on_deleted_done
    \/ \E t \in Threads : process_file_extract(t)
    \/ \E t \in Threads : process_file_embed(t)
    \/ \E t \in Threads : process_file_chroma(t)
    \/ \E t \in Threads : add_to_neo4j_file(t)
    \/ \E t \in Threads : add_to_neo4j_chunk(t)
    \/ \E t \in Threads : add_to_neo4j_contains(t)
    \/ \E t \in Threads : process_file_done(t)
    \/ start_monitor_scan
    \/ start_monitor_for
    \/ start_monitor_update

Spec == Init /\ [][Next]_vars

(***************************************************************************)
(* The specification of the chunker: chunk_text is called on a text of     *)
(* 0..MaxWords words with the default chunk_size and overlap.              *)
(***************************************************************************)
ChunkInputs ==
    { [text |-> Text("w", n), chunk_size |-> CHUNK_SIZE, overlap |-> OVERLAP] :
        n \in 0..MaxWords }

ChunkInit ==
    /\ dir = [f \in {} |-> <<>>]
    /\ PipelineStart
    /\ c_in \in ChunkInputs
    /\ c_out = <<>>
    /\ c_pc = "call"
    /\ ExtractorUnused
    /\ ChatStart

\* the call of chunk_text
ChunkCall ==
    /\ c_pc = "call"
    /\ IF chunk_text_raises(c_in.text, c_in.chunk_size, c_in.overlap)
       THEN c_out' = <<>> /\ c_pc' = "raised"
       ELSE /\ c_out' = chunk_text(c_in.text, c_in.chunk_size, c_in.overlap)
            /\ c_pc' = "returned"
    /\ UNCHANGED <<filesystem, stores, pc, locals, exc, event_type, monitor,
                   hist, c_in, elsewhere>>

ChunkNext == ChunkCall

ChunkSpec == ChunkInit /\ [][ChunkNext]_vars

(***************************************************************************)
(* The specification of the chunker's windows: chunk_text is called on     *)
(* every text of 0..MaxWindowWords words "a" and "b" with every chunk_size *)
(* in 1..MaxWindowSize and every overlap in 0..chunk_size-1.               *)
(***************************************************************************)
WindowWordLists ==
    UNION { [1..n -> {"a", "b"}] : n \in 0..MaxWindowWords }

WindowInputs ==
    UNION { { [text |-> join(ws), chunk_size |-> size, overlap |-> ov] :
                ws \in WindowWordLists, ov \in 0..(size - 1) } :
            size \in 1..MaxWindowSize }

WindowInit ==
    /\ dir = [f \in {} |-> <<>>]
    /\ PipelineStart
    /\ c_in \in WindowInputs
    /\ c_out = <<>>
    /\ c_pc = "call"
    /\ ExtractorUnused
    /\ ChatStart

WindowNext == ChunkCall

WindowSpec == WindowInit /\ [][WindowNext]_vars

(***************************************************************************)
(* The specification of the chunker's configurations: chunk_text is called *)
(* on the same texts with every chunk_size in 1..MaxWindowSize and every   *)
(* overlap in 0..MaxWindowSize+1, those not below chunk_size among them.   *)
(***************************************************************************)
ConfigInputs ==
    { [text |-> join(ws), chunk_size |-> size, overlap |-> ov] :
        ws \in WindowWordLists,
        size \in 1..MaxWindowSize,
        ov \in 0..(MaxWindowSize + 1) }

ConfigInit ==
    /\ dir = [f \in {} |-> <<>>]
    /\ PipelineStart
    /\ c_in \in ConfigInputs
    /\ c_out = <<>>
    /\ c_pc = "call"
    /\ ExtractorUnused
    /\ ChatStart

ConfigNext == ChunkCall

ConfigSpec == ConfigInit /\ [][ConfigNext]_vars

(***************************************************************************)
(* The specification of the text extractors: a text file of at most        *)
(* MaxBytes bytes is read by extract_text_from_txt or by _read_text_file.  *)
(***************************************************************************)
ExtractInputs == UNION { [1..n -> ByteValues] : n \in 0..MaxBytes }

ExtractInit ==
    /\ dir = [f \in {} |-> <<>>]
    /\ PipelineStart
    /\ c_in = [text |-> <<>>, chunk_size |-> CHUNK_SIZE, overlap |-> OVERLAP]
    /\ c_out = <<>>
    /\ c_pc = "unused"
    /\ e_in \in ExtractInputs
    /\ e_out = NoResult
    /\ e_pc = "call"
    /\ ChatStart

\* the call of extract_text_from_txt
ExtractTxtCall ==
    /\ e_pc = "call"
    /\ e_out' = extract_text_from_txt(e_in)
    /\ e_pc' = IF extract_text_from_txt(e_in).kind = "text"
               THEN "extract_returned" ELSE "extract_raised"
    /\ UNCHANGED <<pipeline, chunker, e_in, chat>>

\* the call of _read_text_file
ReadTextFileCall ==
    /\ e_pc = "call"
    /\ e_out' = read_text_file(e_in)
    /\ e_pc' = "read_returned"
    /\ UNCHANGED <<pipeline, chunker, e_in, chat>>

ExtractNext == ExtractTxtCall \/ ReadTextFileCall

ExtractSpec == ExtractInit /\ [][ExtractNext]_vars

(***************************************************************************)
(* The specification of the chat sessions: MaxChatCalls calls of           *)
(* create_session, add_message, get_all_sessions and delete_session, one   *)
(* after the other (main.py calls them from coroutines of one event loop,  *)
(* and none of them awaits).                                               *)
(***************************************************************************)
ChatInit ==
    /\ dir = [f \in {} |-> <<>>]
    /\ PipelineStart
    /\ c_in = [text |-> <<>>, chunk_size |-> CHUNK_SIZE, overlap |-> OVERLAP]
    /\ c_out = <<>>
    /\ c_pc = "unused"
    /\ ExtractorUnused
    /\ ChatStart

\* a call of ChatHistoryManager
ChatCall ==
    /\ chat_calls < MaxChatCalls
    /\ chat_calls' = chat_calls + 1
    /\ UNCHANGED <<pipeline, chunker, extractor>>

\* create_session (lines 12-22); uuid4 gives an id never given before
create_session(sid) ==
    /\ ChatCall
    /\ sid \notin created
    /\ session_files' = save_session(session_files, sid, new_session(sid))
    /\ created' = created \cup {sid}
    /\ added' = [x \in DOMAIN added \cup {sid} |->
                    IF x = sid THEN <<>> ELSE added[x]]

\* add_message (lines 38-52); when the session's file does not exist
\* nothing is done, when it is not JSON load_session raises; a message
\* counts as added when the call returns
add_message(sid, role, content) ==
    /\ ChatCall
    /\ IF loads(session_files, sid)
       THEN LET session_data == session_files[sid].data
                message == [role |-> role, content |-> content]
                messages == Append(session_data.messages, message)
                new_data == [session_data EXCEPT
                                !.messages = messages,
                                !.title = summarize_session(messages)]
            IN  /\ session_files' = save_session(session_files, sid, new_data)
                /\ added' = IF json_dump_ok(new_data)
                             THEN [added EXCEPT ![sid] = Append(@, message)]
                             ELSE added
       ELSE UNCHANGED <<session_files, added>>
    /\ UNCHANGED created

\* get_all_sessions (lines 63-84): a title that is not the summary is
\* rewritten; a file that is not JSON makes the call raise and stays as
\* it is
get_all_sessions ==
    /\ ChatCall
    /\ session_files' =
          [sid \in DOMAIN session_files |->
              IF loads(session_files, sid)
              THEN JsonFile([session_files[sid].data EXCEPT
                      !.title = summarize_session(session_files[sid].data.messages)])
              ELSE session_files[sid]]
    /\ UNCHANGED <<added, created>>

\* delete_session (lines 86-92)
delete_session(sid) ==
    /\ ChatCall
    /\ session_files' = [x \in DOMAIN session_files \ {sid} |-> session_files[x]]
    /\ UNCHANGED <<added, created>>

ChatNext ==
    \/ \E sid \in SessionIds : create_session(sid)
    \/ \E sid \in SessionIds : \E role \in Roles : \E content \in MessageContents :
          add_message(sid, role, content)
    \/ get_all_sessions
    \/ \E sid \in SessionIds : delete_session(sid)

ChatSpec == ChatInit /\ [][ChatNext]_vars

(***************************************************************************)
(* What the properties below speak of.                                     *)
(***************************************************************************)
F_txt == <<"a", ".txt">>
G_md == <<"a", ".txt", ".md">>

\* VectorStore.listIdsWithPrefix(fid + "_chunk_")
VecIdsOf(fid) ==
    { r.id : r \in { q \in collection : startswith(q.id, fid \o <<"_chunk_">>) } }

\* the ids of the Chunk nodes the File nodes of fid have a CONTAINS
\* relationship to
GraphIdsOf(fid) ==
    { r.dst.id : r \in { q \in graph.rels :
                           q.src.id = fid /\ q.src \in graph.files
                                          /\ q.dst \in graph.chunks } }

\* the ids <fid>_chunk_0 .. <fid>_chunk_<n-1>
ExpectedIds(fid, n) == { fid \o <<"_chunk_", ToString(i)>> : i \in 0..(n - 1) }

\* the observer thread has handled the Deleted event of file fid (on_deleted
\* has returned or has raised), with no run of process_file on fid by the
\* main thread in flight at any time since on_deleted began
DeletedHandled(fid) ==
    /\ hist["watcher"].alone
    /\ event_type = "deleted"
    /\ file_path["watcher"] # <<>>
    /\ file_id("watcher") = fid
    /\ \/ pc["watcher"] = "del_done"
       \/ pc["watcher"] = "crashed" /\ exc["watcher"].where = "on_deleted"

\* no processing and no deletion in flight, no event waiting
Quiescent ==
    /\ pc["watcher"] = "idle"
    /\ pc["main"] = "main_scan"
    /\ event_queue = <<>>

\* the observer thread has re-ingested a file after a Modified event; the
\* main thread has written nothing of that file meanwhile and is not inside
\* process_file
Reingested ==
    /\ pc["watcher"] = "pf_done"
    /\ event_type = "modified"
    /\ hist["watcher"].alone
    /\ pc["main"] \notin ProcessFilePcs

\* thread t takes a step
Steps(t) == pc'[t] # pc[t]

(***************************************************************************)
(* C1.  For every file id at most one run of process_file is in flight:    *)
(* the observer thread and the main thread are never both inside           *)
(* process_file for the same file id.                                      *)
(***************************************************************************)
C1_OneRunPerFile ==
    ~ /\ pc["watcher"] \in ProcessFilePcs
      /\ pc["main"] \in ProcessFilePcs
      /\ file_id("watcher") = file_id("main")

(***************************************************************************)
(* C2.  Deletion completeness: once the Deleted event of file F has been   *)
(* handled, the collection holds no id starting with F_chunk_ and the      *)
(* graph holds no File node with id F.                                     *)
(***************************************************************************)
C2_DeletionComplete ==
    \A fid \in FileIds :
        DeletedHandled(fid) =>
            /\ VecIdsOf(fid) = {}
            /\ ~ \E f \in graph.files : f.id = fid

(***************************************************************************)
(* C3.  Deletion precision: no step of on_deleted for file F changes the   *)
(* records the collection holds under the chunk ids of another file G,     *)
(* also when G's name starts with F's.                                     *)
(***************************************************************************)
C3_DeletionPrecise ==
    [][ \A g \in FileIds :
          ( /\ pc["watcher"] \in {"del_chroma", "del_neo4j"}
            /\ Steps("watcher")
            /\ g # file_id("watcher") )
          => { r \in collection : r.id \in VecIdsOf(g) }
               = { r \in collection' : r.id \in VecIdsOf(g)' } ]_vars

\* on_deleted has been handled for a.txt while the collection holds chunks
\* of a.txt.md
C3_Witness ==
    /\ DeletedHandled(F_txt)
    /\ VecIdsOf(G_md) # {}

(***************************************************************************)
(* C4.  No orphaned chunks: once the Deleted event of file F has been      *)
(* handled, the collection holds no chunk of F and the graph holds no      *)
(* Chunk node with an id F_chunk_<n>.                                      *)
(***************************************************************************)
C4_NoOrphanedChunks ==
    \A fid \in FileIds :
        DeletedHandled(fid) =>
            /\ ~ \E r \in collection : startswith(r.id, fid \o <<"_chunk_">>)
            /\ ~ \E c \in graph.chunks : startswith(c.id, fid \o <<"_chunk_">>)

(***************************************************************************)
(* C5.  Cross-store consistency: in every quiescent state a chunk id is in *)
(* the collection for a file exactly when the graph has a CONTAINS         *)
(* relationship from the file's File node to a Chunk node with that id.    *)
(***************************************************************************)
C5_CrossStoreConsistent ==
    Quiescent => \A fid \in FileIds : VecIdsOf(fid) = GraphIdsOf(fid)

(***************************************************************************)
(* C6.  Stale-chunk pruning: when a Modified event has re-ingested file F  *)
(* and its content gave n chunks, both stores hold exactly the chunk ids   *)
(* F_chunk_0 .. F_chunk_<n-1> for F.                                       *)
(***************************************************************************)
C6_StaleChunksPruned ==
    Reingested =>
        LET fid == file_id("watcher")
            n == Len(chunks["watcher"])
        IN  /\ VecIdsOf(fid) = ExpectedIds(fid, n)
            /\ GraphIdsOf(fid) = ExpectedIds(fid, n)

(***************************************************************************)
(* C7.  Idempotent re-ingestion: a run of process_file that begins with    *)
(* the stores holding what a run on the same chunks leaves, and that no    *)
(* other thread's write for that file crosses, changes neither store at    *)
(* any step and does not raise, unless the embedding service fails; and a  *)
(* run that no other thread crosses ends with the stores holding just      *)
(* that.                                                                   *)
(***************************************************************************)
C7_IdempotentReingestion ==
    /\ [] ( \A t \in Threads :
              (pc[t] = "pf_done" /\ hist[t].alone)
                  => AlreadyProcessed(file_id(t), chunks[t]) )
    /\ [][ \A t \in Threads :
              ( /\ pc[t] \in ProcessFilePcs \ {"pf_extract"}
                /\ hist[t].done /\ hist[t].alone
                /\ Steps(t) )
              => /\ collection' = collection
                 /\ graph' = graph
                 /\ (pc'[t] = "crashed" => exc'[t].where = "embed_text") ]_vars

\* a second run over the three chunks of an unchanged file has ended
C7_Witness ==
    \E t \in Threads :
        /\ pc[t] = "pf_done"
        /\ hist[t].done /\ hist[t].alone
        /\ Len(chunks[t]) = 3

(***************************************************************************)
(* C8.  Upsert overwrites: when a Modified event has re-ingested file F,   *)
(* the record under each chunk id F_chunk_i holds the text and the vector  *)
(* of the i-th chunk of the content just read.                             *)
(***************************************************************************)
C8_UpsertOverwrites ==
    Reingested =>
        \A i \in 0..(Len(chunks["watcher"]) - 1) :
            \A r \in collection :
                r.id = file_id("watcher") \o <<"_chunk_", ToString(i)>>
                    => /\ r.document = chunks["watcher"][i + 1]
                       /\ r.embedding = embed_text(chunks["watcher"][i + 1])

(***************************************************************************)
(* C9.  Ingestion postcondition: a run of process_file on file F with n    *)
(* chunks that began with nothing of F in the stores, and that no other    *)
(* thread's write for F crossed, ends with the collection holding exactly  *)
(* the n distinct ids F_chunk_0 .. F_chunk_<n-1>, each with its chunk's    *)
(* text, and the graph holding for each of them a CONTAINS relationship    *)
(* from a File node F to a Chunk node with that id.                        *)
(***************************************************************************)
C9_IngestionPostcondition ==
    \A t \in Threads :
        (pc[t] = "pf_done" /\ hist[t].clean /\ hist[t].alone) =>
            LET fid == file_id(t)
                n == Len(chunks[t])
            IN  /\ VecIdsOf(fid) = ExpectedIds(fid, n)
                /\ Cardinality(VecIdsOf(fid)) = n
                /\ \A i \in 0..(n - 1) :
                      LET cid == fid \o <<"_chunk_", ToString(i)>>
                      IN  /\ \E r \in collection :
                                r.id = cid /\ r.document = chunks[t][i + 1]
                          /\ \E r \in graph.rels :
                                /\ r.src \in graph.files /\ r.src.id = fid
                                /\ r.dst \in graph.chunks /\ r.dst.id = cid

\* a 1200-word file has been ingested into stores that held nothing of it
C9_Witness ==
    \E t \in Threads :
        /\ pc[t] = "pf_done" /\ hist[t].clean /\ hist[t].alone
        /\ dir = (F_txt :> Text("x", 1200))
        /\ Len(chunks[t]) = 3
        /\ VecIdsOf(F_txt) = ExpectedIds(F_txt, 3)

(***************************************************************************)
(* C10.  Chunk count.  As claimed: for W > 0 words, size 500 and overlap   *)
(* 50, chunk_text returns ceil(max(W - overlap, 0) / (size - overlap))     *)
(* chunks, and none for W = 0.  As the code has it: ceil(W / (size -       *)
(* overlap)) chunks for every W >= 0.                                      *)
(***************************************************************************)
Ceil(a, b) == (a + b - 1) \div b

Max(a, b) == IF a >= b THEN a ELSE b

\* the number of words of chunk_text's argument
C_W == RunTotal(c_in.text, Len(c_in.text))

C10_ChunkCountAsClaimed ==
    c_pc = "returned" =>
        Len(c_out) = IF C_W = 0 THEN 0
                     ELSE Ceil(Max(C_W - c_in.overlap, 0),
                               c_in.chunk_size - c_in.overlap)

C10_ChunkCount ==
    c_pc = "returned" =>
        Len(c_out) = Ceil(C_W, c_in.chunk_size - c_in.overlap)

\* 501 words have been chunked into two chunks
C10_Witness ==
    /\ c_pc = "returned"
    /\ c_in.chunk_size = 500 /\ c_in.overlap = 50
    /\ C_W = 501
    /\ Len(c_out) = 2

(***************************************************************************)
(* C11.  Delete racing with ingestion: when on_deleted for file F and a    *)
(* run of process_file on F were in flight at the same time and both have  *)
(* ended, the stores hold either all of F (the same chunk ids 0..n-1 in    *)
(* the collection and under F's File node) or nothing of F, never a part.  *)
(***************************************************************************)
\* the stores hold a whole ingestion of file fid
FullyIngested(fid) ==
    LET n == Cardinality(VecIdsOf(fid))
    IN  /\ n > 0
        /\ VecIdsOf(fid) = ExpectedIds(fid, n)
        /\ GraphIdsOf(fid) = ExpectedIds(fid, n)
        /\ \E f \in graph.files : f.id = fid

\* thread t is at the end of an operation that raced, and the other
\* thread's operation on the same file has ended
RaceOver(t) ==
    /\ hist[t].raced
    /\ pc[t] \in {"pf_done", "del_done"}
    /\ \A u \in Threads \ {t} :
           ~ /\ pc[u] \in (ProcessFilePcs \cup OnDeletedPcs) \ {"pf_done", "del_done"}
             /\ file_path[u] = file_path[t]

C11_DeleteRaceAllOrNothing ==
    \A t \in Threads :
        RaceOver(t) => FullyIngested(file_id(t)) \/ HoldNothing(file_id(t))

(***************************************************************************)
(* C12.  Failure isolation: a failure while a file is processed (the file  *)
(* cannot be read, the embedding call fails) ends neither the observer     *)
(* thread nor the loop of start_monitor.                                   *)
(***************************************************************************)
C12_FailureIsolation ==
    \A t \in Threads :
        ~ /\ pc[t] = "crashed"
          /\ exc[t].where \in {"process_file", "embed_text"}

(***************************************************************************)
(* C13.  Chunk-level embed failure: the step at which the embedding of     *)
(* chunk i fails writes to neither store, and the run does not end before  *)
(* every chunk j > i of the file is in both stores.                        *)
(***************************************************************************)
C13_EmbedFailureSkipsChunk ==
    /\ [][ \A t \in Threads :
              (pc[t] = "pf_embed" /\ exc'[t].where = "embed_text")
                  => collection' = collection /\ graph' = graph ]_vars
    /\ [] ( \A t \in Threads :
              ( /\ exc[t].where = "embed_text"
                /\ pc[t] \notin ProcessFilePcs \ {"pf_done"} )
              => \A j \in (idx[t] + 1)..(Len(chunks[t]) - 1) :
                    /\ chunk_id(file_id(t), j) \in VecIdsOf(file_id(t))
                    /\ chunk_id(file_id(t), j) \in GraphIdsOf(file_id(t)) )

(***************************************************************************)
(* C14.  Extraction failure: when the text of a file cannot be read (the   *)
(* file is gone when process_file opens it), that step leaves the          *)
(* collection and the graph as they were and process_file returns to its   *)
(* caller, which goes on with later events and files.                      *)
(***************************************************************************)
\* process_file of thread t is about to open a file it cannot read
ExtractionFails(t) ==
    /\ pc[t] = "pf_extract"
    /\ splitext_lower(file_path[t]) \in {".txt", ".md"}
    /\ file_id(t) \notin DOMAIN dir

C14_ExtractionFailure ==
    [][ \A t \in Threads :
          (ExtractionFails(t) /\ Steps(t))
              => /\ collection' = collection
                 /\ graph' = graph
                 /\ pc'[t] = ReturnPc(t) ]_vars

(***************************************************************************)
(* C15.  Unsupported file: process_file on b.exe creates no chunk, writes  *)
(* nothing to the collection or the graph, raises nothing and returns to   *)
(* its caller.                                                             *)
(***************************************************************************)
C15_UnsupportedFile ==
    [][ \A t \in Threads :
          (pc[t] = "pf_extract" /\ file_id(t) = <<"b", ".exe">> /\ Steps(t))
              => /\ collection' = collection
                 /\ graph' = graph
                 /\ chunks'[t] = <<>>
                 /\ exc' = exc
                 /\ pc'[t] = ReturnPc(t) ]_vars

\* the loop has called process_file on b.exe, the only new file, and is back
\* in its for loop with the stores empty
C15_Witness ==
    /\ pc["main"] = "main_for"
    /\ new_files = {<<"b", ".exe">>}
    /\ todo = {}
    /\ collection = {}
    /\ graph = EmptyGraph

(***************************************************************************)
(* C16.  Idempotent delete: when the stores hold no chunk and no File node *)
(* of file F, whatever they hold of other files, every step of on_deleted  *)
(* for F leaves both stores as they were and raises nothing.               *)
(***************************************************************************)
C16_IdempotentDelete ==
    [][ ( /\ pc["watcher"] \in {"del_chroma", "del_neo4j"}
          /\ HoldNothing(file_id("watcher"))
          /\ Steps("watcher") )
        => /\ collection' = collection
           /\ graph' = graph
           /\ pc'["watcher"] # "crashed" ]_vars

(***************************************************************************)
(* C17.  Debounce: of the Modified events the observer queues for one      *)
(* write of a file, only the first starts a run of process_file.           *)
(***************************************************************************)
C17_Debounce ==
    [][ ( /\ pc["watcher"] = "idle"
          /\ event_queue # <<>>
          /\ event_queue' = Tail(event_queue)
          /\ Head(event_queue).event_type = "modified"
          /\ Head(event_queue).nth > 1 )
        => pc'["watcher"] # "pf_extract" ]_vars

(***************************************************************************)
(* C18.  Reconciliation catches missed files: the loop of start_monitor    *)
(* calls process_file on every file it found new in the directory and      *)
(* then adds them to processed_files; it never ends while a file it found  *)
(* new is still in the directory and has not been handed to process_file   *)
(* (once ended, the loop takes no further step).                           *)
(***************************************************************************)
C18_ReconciliationCatchesAll ==
    /\ [][ (pc["main"] = "main_for" /\ pc'["main"] = "main_scan")
              => todo = {} /\ processed_files' = processed_files \cup new_files ]_vars
    /\ [] ~ ( /\ pc["main"] = "crashed"
              /\ \E f \in todo : f \in DOMAIN dir )

(***************************************************************************)
(* C19.  Event delivery is not blocked by ingestion: no event waits in the *)
(* observer's queue while the thread that delivers events is inside an     *)
(* embedding call or a store write of process_file.                        *)
(***************************************************************************)
C19_DeliveryNotBlocked ==
    ~ /\ event_queue # <<>>
      /\ pc["watcher"] \in {"pf_embed", "pf_chroma", "pf_neo_file",
                            "pf_neo_chunk", "pf_neo_rel"}

(***************************************************************************)
(* C20.  Chunk windows: for every word list and every size > overlap >= 0  *)
(* chunk_text returns, in order, the windows                               *)
(* words[k*(size-overlap) : k*(size-overlap)+size] for k = 0, 1, ... while *)
(* the start index is below the word count; no chunk is empty, every word  *)
(* of the text is in a chunk at its place, and a chunk ends with the words *)
(* the next chunk begins with, as many as their index ranges share.        *)
(***************************************************************************)
Min(a, b) == IF a <= b THEN a ELSE b

C20_ChunkWindows ==
    c_pc = "returned" =>
        LET words == split(c_in.text)
            W == Len(words)
            size == c_in.chunk_size
            step == c_in.chunk_size - c_in.overlap
            n == Ceil(W, step)
        IN  /\ Len(c_out) = n
            /\ \A k \in 1..n :
                  /\ c_out[k] = join(SubSeq(words, (k - 1) * step + 1,
                                            Min((k - 1) * step + size, W)))
                  /\ c_out[k] # <<>>
            /\ \A p \in 1..W :
                  \E k \in 1..n :
                      LET ck == split(c_out[k])
                          off == p - (k - 1) * step
                      IN  off \in 1..Len(ck) /\ ck[off] = words[p]
            /\ \A k \in 1..(n - 1) :
                  LET a == split(c_out[k])
                      b == split(c_out[k + 1])
                      m == Min((k - 1) * step + size, W) - k * step
                  IN  /\ m >= 0 /\ m <= Len(a) /\ m <= Len(b)
                      /\ SubSeq(a, Len(a) - m + 1, Len(a)) = SubSeq(b, 1, m)

\* five words have been chunked with size 3 and overlap 1 into three windows
C20_Witness ==
    /\ c_pc = "returned"
    /\ c_in = [text |-> join(<<"a", "b", "a", "b", "b">>),
               chunk_size |-> 3, overlap |-> 1]
    /\ c_out = << join(<<"a", "b", "a">>), join(<<"a", "b", "b">>), join(<<"b">>) >>

(***************************************************************************)
(* C21.  Chunker configuration error: a call of chunk_text with            *)
(* chunk_size - overlap <= 0 is rejected (it raises); it never returns a   *)
(* chunk list, empty or not.                                               *)
(***************************************************************************)
C21_ConfigurationRejected ==
    (c_pc # "call" /\ c_in.chunk_size - c_in.overlap <= 0) => c_pc = "raised"

(***************************************************************************)
(* C22.  Encoding fallback: reading a text file gives the text of the      *)
(* first of UTF-8, latin-1 and cp1252 that decodes its bytes, so a file    *)
(* that is not UTF-8 but is latin-1 is read; when none decodes the result  *)
(* is an 'undecodable' outcome; no read raises.                            *)
(***************************************************************************)
\* the encodings that decode the extractors' input, in the order tried
Decoding == SelectSeq(encodings, LAMBDA enc : decode(e_in, enc).ok)

C22_EncodingFallback ==
    e_pc \notin {"call", "unused"} =>
        /\ e_pc \in {"extract_returned", "read_returned"}
        /\ IF Decoding # <<>>
           THEN e_out.kind = "text" /\ e_out.text = decode(e_in, Decoding[1]).text
           ELSE e_out.kind = "message"

C24_OneChunkNodePerId ==
    \A c1, c2 \in graph.chunks : c1.id = c2.id => c1 = c2

(***************************************************************************)
(* C25.  Within a run of process_file into stores that held nothing of the *)
(* file, which no other thread's write for that file crosses, chunks are   *)
(* written in ascending order, each embedded, then added to the            *)
(* collection, then merged into the graph: at every point of the run the   *)
(* file's chunk ids in the collection are those of the ordinals below k,   *)
(* those in the graph are a subset of them that lacks at most the last,    *)
(* and the embedding at hand is that of the chunk being written.           *)
(***************************************************************************)
C25_WriteOrder ==
    \A t \in Threads :
        ( /\ pc[t] \in ProcessFilePcs \ {"pf_extract"}
          /\ hist[t].clean /\ hist[t].alone )
        => LET fid == file_id(t)
               written == IF pc[t] \in {"pf_neo_file", "pf_neo_chunk", "pf_neo_rel"}
                          THEN idx[t] + 1
                          ELSE IF pc[t] = "pf_done" THEN Len(chunks[t])
                          ELSE idx[t]
               merged == IF pc[t] = "pf_done" THEN Len(chunks[t]) ELSE idx[t]
           IN  /\ VecIdsOf(fid) = ExpectedIds(fid, written)
               /\ GraphIdsOf(fid) = ExpectedIds(fid, merged)
               /\ GraphIdsOf(fid) \subseteq VecIdsOf(fid)
               /\ Cardinality(VecIdsOf(fid) \ GraphIdsOf(fid)) <= 1
               /\ pc[t] = "pf_chroma"
                      => embedding[t] = embed_text(chunks[t][idx[t] + 1])

\* the second of three chunks is in the collection and not yet in the graph
C25_Witness ==
    \E t \in Threads :
        /\ pc[t] = "pf_neo_chunk"
        /\ hist[t].clean /\ hist[t].alone
        /\ Len(chunks[t]) = 3
        /\ idx[t] = 1
        /\ VecIdsOf(file_id(t)) = ExpectedIds(file_id(t), 2)
        /\ GraphIdsOf(file_id(t)) = ExpectedIds(file_id(t), 1)

(***************************************************************************)
(* C26.  Chat sessions: after any calls of create_session, add_message,    *)
(* get_all_sessions and delete_session, every stored session's messages    *)
(* are the messages added to it, in call order, and its title is the       *)
(* first 60 characters (and '...' when there are more) of its first user   *)
(* message with non-blank content, or 'New Chat' when it has none; a       *)
(* session file comes to be only by create_session, empty: add_message on  *)
(* an id that does not exist stores nothing.                               *)
(***************************************************************************)
\* whether string s has a character that is not a blank
NonBlank(s) == \E i \in 1..Len(s) : s[i][1] # " "

\* the title the messages ms should give
TitleOf(ms) ==
    LET users == { i \in 1..Len(ms) : ms[i].role = "user" /\ NonBlank(ms[i].content) }
    IN  IF users = {} THEN NewChat
        ELSE LET first == CHOOSE i \in users : \A j \in users : i <= j
                 content == ms[first].content
             IN  [text |-> IF StrLen(content) <= 60 THEN content
                           ELSE TakeChars(content, 60),
                  suffix |-> IF StrLen(content) > 60 THEN "..." ELSE ""]

C26_ChatSessions ==
    /\ [] ( \A sid \in DOMAIN session_files :
              /\ session_files[sid].json_ok
              /\ session_files[sid].data.messages = added[sid]
              /\ session_files[sid].data.title = TitleOf(added[sid]) )
    /\ [][ \A sid \in SessionIds :
              (sid \notin DOMAIN session_files /\ sid \in DOMAIN session_files')
                  => /\ sid \notin created
                     /\ session_files'[sid] = JsonFile(new_session(sid)) ]_vars

=============================================================================
